---- MODULE Spec2Model ----
(***************************************************************************)
(* State-machine model of the ArchitectAI dashboard client:                *)
(*   - the Artifact Resolver (DashboardPage.jsx: the diagramUrl effect,    *)
(*     the <img> onError handler and the placeholder element);             *)
(*   - the generation and load handlers that create diagram references;    *)
(*   - the Validation Orchestrator (ValidationPanel: debounce timer,       *)
(*     validateDescription, and the validation service it calls).          *)
(* Strings are TLA+ strings; the JavaScript string built-ins the code      *)
(* uses are computed character by character.                               *)
(***************************************************************************)
EXTENDS Integers, Sequences, FiniteSets, TLC

VARIABLES
    apiBaseUrl,            \* config/api.js API_BASE_URL (fixed at build time)
    input,                 \* DashboardPage state
    isProcessing,
    activeTab,
    hasResults,
    error,
    architectureExists,
    validationState,
    designDocument,
    diagramUrl,
    resolvedDiagramUrl,
    diagramTriedProxy,
    savedArchitectures,
    isLoadingSaved,
    showSavedDropdown,
    effectPending,         \* the [diagramUrl] effect is scheduled, not yet run
    imgLoad,               \* the <img> element: "none" | "loading" | "loaded" | "failed"
    imgHidden,             \* the <img> element's style.display = 'none'
    placeholderDisplay,    \* the placeholder <div>'s style.display in the DOM
    genPc,                 \* handleSubmit: "idle" | "awaitGenerate" | "awaitExists"
    loadsInFlight,         \* handleLoadArchitecture calls awaiting their fetch
    listFetches,           \* loadSavedArchitectures calls awaiting their fetch, by caller
    displayedFrom,         \* history: which handler set the displayed result
    isSaving,
    savePc,                \* handleSaveArchitecture: "idle" | "awaitSave" | "awaitList"
    lastAlert,             \* text of the last alert() shown
    deletesInFlight,       \* handleDeleteArchitecture calls awaiting their fetch
    exportStatus,          \* the toast: [type, message], or Null
    isExporting,
    exportPc,              \* exportDiagramPNG: "idle" | "awaitBlob"
    validationResults,     \* ValidationPanel state
    suggestions,
    isValidating,
    detectedComponents,
    debounceTimer,         \* the panel's setTimeout: [status, description]
    cycles,                \* validateDescription calls in flight, oldest first
    cycleCount,            \* number of validateDescription calls that engaged
    publishCount,          \* number of onValidationChange calls made
    apiCalls               \* requests issued to the validation service

pageVars == <<input, isProcessing, activeTab, hasResults, error, architectureExists,
              designDocument, diagramUrl, savedArchitectures, isLoadingSaved,
              showSavedDropdown, genPc, loadsInFlight, listFetches, displayedFrom>>
exportVars == <<exportStatus, isExporting, exportPc>>
saveVars == <<isSaving, savePc, lastAlert, deletesInFlight, exportVars>>
resolverVars == <<resolvedDiagramUrl, diagramTriedProxy, effectPending>>
domVars == <<imgLoad, imgHidden, placeholderDisplay>>
panelVars == <<validationResults, suggestions, isValidating, detectedComponents>>
orchestratorVars == <<debounceTimer, cycles, cycleCount, publishCount, apiCalls>>
vars == <<apiBaseUrl, pageVars, saveVars, resolverVars, domVars, validationState,
          panelVars, orchestratorVars>>

-----------------------------------------------------------------------------
(* Bounds of the model *)

\* validateDescription calls that may engage in one behaviour
MaxCycles == 2
\* length of the longest list the suggestion endpoint returns
MaxSuggestionsReturned == 6
\* handleLoadArchitecture fetches that may be in flight together
MaxLoads == 1
\* handleDeleteArchitecture fetches that may be in flight together
MaxDeletes == 1

(* Program constants *)

MinDescriptionLength == 10
MaxShownSuggestions == 5

-----------------------------------------------------------------------------
(* JavaScript string built-ins *)

StartsWith(s, p) == Len(s) >= Len(p) /\ SubSeq(s, 1, Len(p)) = p

EndsWith(s, p) == Len(s) >= Len(p) /\ SubSeq(s, Len(s) - Len(p) + 1, Len(s)) = p

Includes(s, p) ==
    \E i \in 1..(Len(s) - Len(p) + 1) : SubSeq(s, i, i + Len(p) - 1) = p

\* s.replace(/<suffix>$/, '')
StripSuffix(s, suffix) ==
    IF EndsWith(s, suffix) THEN SubSeq(s, 1, Len(s) - Len(suffix)) ELSE s

UnreservedChars ==
    "ABCDEFGHIJKLMNOPQRSTUVWXYZabcdefghijklmnopqrstuvwxyz0123456789-_.!~*'()"

EscapedChar(c) ==
    CASE c = ":" -> "%3A"
      [] c = "/" -> "%2F"
      [] c = "?" -> "%3F"
      [] c = "=" -> "%3D"
      [] c = "&" -> "%26"
      [] c = " " -> "%20"
      [] c = "%" -> "%25"
      [] c = "#" -> "%23"
      [] c = "+" -> "%2B"
      [] c = "," -> "%2C"

RECURSIVE EncodeURIComponent(_)
EncodeURIComponent(s) ==
    IF s = "" THEN ""
    ELSE LET c == SubSeq(s, 1, 1)
         IN (IF Includes(UnreservedChars, c) THEN c ELSE EscapedChar(c))
            \o EncodeURIComponent(SubSeq(s, 2, Len(s)))

RECURSIVE Trim(_)
Trim(s) ==
    IF s = "" THEN ""
    ELSE IF SubSeq(s, 1, 1) = " " THEN Trim(SubSeq(s, 2, Len(s)))
    ELSE IF SubSeq(s, Len(s), Len(s)) = " " THEN Trim(SubSeq(s, 1, Len(s) - 1))
    ELSE s

LowerChar(c) ==
    LET upper == "ABCDEFGHIJKLMNOPQRSTUVWXYZ"
        lower == "abcdefghijklmnopqrstuvwxyz"
    IN IF \E i \in 1..26 : SubSeq(upper, i, i) = c
       THEN LET i == CHOOSE i \in 1..26 : SubSeq(upper, i, i) = c
            IN SubSeq(lower, i, i)
       ELSE c

RECURSIVE ToLowerCase(_)
ToLowerCase(s) ==
    IF s = "" THEN ""
    ELSE LowerChar(SubSeq(s, 1, 1)) \o ToLowerCase(SubSeq(s, 2, Len(s)))

-----------------------------------------------------------------------------
(* Values the environment supplies *)

\* VITE_API_BASE_URL || ''
ApiBaseUrls == {"", "https://backend.example.io"}

BlobRef == "https://store.blob.core.windows.net/diagrams/x.png"
RelativeRef == "/static/diagrams/x.png"
QueryRef == "/d/a b.png?v=1&k=2"
OtherAbsoluteRef == "https://example.com/x.png"

\* diagram_url values a generation or a saved record carries ('' = none)
DiagramRefs == {BlobRef, RelativeRef, QueryRef, OtherAbsoluteRef}

\* records of the persistence collaborator
SavedRecords ==
    { [id |-> "a1", design_document |-> "docA", diagram_url |-> BlobRef],
      [id |-> "a2", design_document |-> "docB", diagram_url |-> RelativeRef] }

\* bodies of a successful generation response
GenerationResponses ==
    [design_document : {"", "docA"}, diagram_url : DiagramRefs \cup {""}]

\* text the user may type
Texts == {"", "aks + ACR", "AKS & ACR.", "plain text, no match"}

-----------------------------------------------------------------------------
(* config/api.js *)

GENERATE_ARCHITECTURE == apiBaseUrl \o "/api/generate-architecture"

-----------------------------------------------------------------------------
(* Artifact Resolver *)

BackendUrl == StripSuffix(GENERATE_ARCHITECTURE, "/api/generate-architecture")

\* a classification that looks at the scheme alone
IsAzureStorageUrl_SchemeOnly(ref) == StartsWith(ref, "https://")

IsAzureStorageUrl(ref) ==
    StartsWith(ref, "https://") /\ Includes(ref, ".blob.core.windows.net")

buildProxyUrl(original) ==
    BackendUrl \o "/api/proxy/diagram?url=" \o EncodeURIComponent(original)

\* a resolution that forgets to percent-encode the reference
FirstResolvedUrl_Unencoded(ref) ==
    IF ref = "" THEN ""
    ELSE IF IsAzureStorageUrl(ref)
         THEN BackendUrl \o "/api/proxy/diagram?url=" \o ref
         ELSE BackendUrl \o ref

\* the URL the [diagramUrl] effect resolves a reference to
FirstResolvedUrl(ref) ==
    IF ref = "" THEN ""
    ELSE IF IsAzureStorageUrl(ref)
         THEN BackendUrl \o "/api/proxy/diagram?url=" \o EncodeURIComponent(ref)
         ELSE BackendUrl \o ref

\* the URL onError falls back to on the first failure
FallbackUrl(ref) ==
    IF StartsWith(ref, "https://") THEN ref ELSE buildProxyUrl(ref)

\* an onError that falls back on every failure
RetryAllowed_Always(triedProxy) == TRUE

\* onError's test for taking the fallback branch
RetryAllowed(triedProxy) == ~triedProxy

-----------------------------------------------------------------------------
(* Rendering: which elements the page mounts, and what a commit does to the *)
(* DOM state the handlers set imperatively                                  *)

ImgMountedIn(has, tab, ref) == has /\ tab = "diagram" /\ ref # ""
PlaceholderMountedIn(has, tab) == has /\ tab = "diagram"

ImgMounted == ImgMountedIn(hasResults, activeTab, diagramUrl)
PlaceholderMounted == PlaceholderMountedIn(hasResults, activeTab)

PlaceholderStyleProp(ref) == IF ref # "" THEN "none" ELSE "block"

\* React commit of a render with the given new state values
Commit(has, tab, ref, resolved) ==
    LET isImg == ImgMountedIn(has, tab, ref)
        isPh == PlaceholderMountedIn(has, tab)
    IN /\ imgHidden' = IF isImg /\ ImgMounted THEN imgHidden ELSE FALSE
       /\ imgLoad' = IF ~isImg THEN "none"
                     ELSE IF ~ImgMounted \/ resolved # resolvedDiagramUrl
                          THEN "loading"
                          ELSE imgLoad
       /\ placeholderDisplay' =
            IF ~isPh THEN "none"
            ELSE IF ~PlaceholderMounted THEN PlaceholderStyleProp(ref)
            ELSE IF PlaceholderStyleProp(ref) # PlaceholderStyleProp(diagramUrl)
                 THEN PlaceholderStyleProp(ref)
                 ELSE placeholderDisplay

-----------------------------------------------------------------------------
(* Values of the page state *)

Null == [kind |-> "null"]
NotSaved == [kind |-> "false"]
Saved(arch) == [kind |-> "architecture", architecture |-> arch]

EmptyMap == [n \in {} |-> [valid |-> TRUE]]

EmptyValidationState ==
    [validationResults |-> EmptyMap, suggestions |-> <<>>, hasErrors |-> FALSE]

\* an item of the saved list that carries only its id (no design_document)
Summary(rec) == [id |-> rec.id, design_document |-> "", diagram_url |-> ""]

-----------------------------------------------------------------------------
(* DashboardPage: text input, tabs, saved list *)

\* an effect without the clearTimeout cleanup: a pending timer keeps running
RestartDebounce_KeepPending(description) ==
    debounceTimer' = IF debounceTimer.status = "pending"
                     THEN debounceTimer
                     ELSE [status |-> "pending", description |-> description]

\* the panel's effect on a changed description: cleanup clears the timer of
\* the previous render, the new run sets one that closes over the new text
RestartDebounce(description) ==
    debounceTimer' = [status |-> "pending", description |-> description]

\* a textarea that is also disabled while a save is running
TextareaDisabled_WhileSaving == isProcessing \/ isSaving

\* the textarea's disabled attribute
TextareaDisabled == isProcessing

\* a panel without the debounce: every change of the text pushes a state
SetInput_PublishesEachChange(text) ==
    /\ ~effectPending
    /\ ~isProcessing
    /\ text # input
    /\ input' = text
    /\ RestartDebounce(text)
    /\ validationState' = EmptyValidationState
    /\ publishCount' = publishCount + 1
    /\ UNCHANGED <<apiBaseUrl, saveVars, listFetches, displayedFrom,
                   isProcessing, activeTab, hasResults, error,
                   architectureExists, designDocument, diagramUrl, savedArchitectures,
                   isLoadingSaved, showSavedDropdown, genPc, loadsInFlight,
                   resolverVars, domVars, panelVars, cycles, cycleCount, apiCalls>>

\* textarea onChange
SetInput(text) ==
    /\ ~effectPending
    /\ ~TextareaDisabled
    /\ text # input
    /\ input' = text
    /\ RestartDebounce(text)
    /\ UNCHANGED <<apiBaseUrl, saveVars, listFetches, displayedFrom,
                   isProcessing, activeTab, hasResults, error,
                   architectureExists, designDocument, diagramUrl, savedArchitectures,
                   isLoadingSaved, showSavedDropdown, genPc, loadsInFlight,
                   resolverVars, domVars, validationState, panelVars, cycles,
                   cycleCount, publishCount, apiCalls>>

\* the tab buttons' onClick
SetActiveTab(tab) ==
    /\ ~effectPending
    /\ tab # activeTab
    /\ activeTab' = tab
    /\ Commit(hasResults, tab, diagramUrl, resolvedDiagramUrl)
    /\ UNCHANGED <<apiBaseUrl, saveVars, listFetches, displayedFrom,
                   input, isProcessing, hasResults, error,
                   architectureExists, designDocument, diagramUrl, savedArchitectures,
                   isLoadingSaved, showSavedDropdown, genPc, loadsInFlight,
                   resolverVars, validationState, panelVars, orchestratorVars>>

\* the "Saved Architectures" button's onClick
ToggleSavedDropdown ==
    /\ ~effectPending
    /\ ~isLoadingSaved
    /\ showSavedDropdown' = ~showSavedDropdown
    /\ UNCHANGED <<apiBaseUrl, saveVars, listFetches, displayedFrom,
                   input, isProcessing, activeTab, hasResults, error,
                   architectureExists, designDocument, diagramUrl, savedArchitectures,
                   isLoadingSaved, genPc, loadsInFlight, resolverVars, domVars,
                   validationState, panelVars, orchestratorVars>>

\* loadSavedArchitectures, from its fetch's response on; the call made by
\* handleSaveArchitecture returns into that handler's finally
LoadSavedArchitecturesDone(owner) ==
    /\ ~effectPending
    /\ owner \in listFetches
    /\ \/ \E full \in BOOLEAN :
            savedArchitectures' =
                IF full THEN SavedRecords ELSE {Summary(r) : r \in SavedRecords}
       \/ savedArchitectures' = {}
    /\ isLoadingSaved' = FALSE
    /\ listFetches' = listFetches \ {owner}
    /\ IF owner = "save"
       THEN /\ isSaving' = FALSE
            /\ savePc' = "idle"
       ELSE UNCHANGED <<isSaving, savePc>>
    /\ UNCHANGED <<apiBaseUrl, input, isProcessing, activeTab, hasResults, error,
                   architectureExists, designDocument, diagramUrl, showSavedDropdown,
                   genPc, loadsInFlight, displayedFrom, lastAlert, deletesInFlight,
                   exportVars, resolverVars, domVars, validationState, panelVars,
                   orchestratorVars>>

-----------------------------------------------------------------------------
(* DashboardPage: handleSubmit and checkArchitectureExists *)

\* a submit button that stays usable while a generation is running
SubmitBlocked_Never == FALSE

\* the submit button's disabled attribute, as far as it depends on isProcessing
SubmitBlocked == isProcessing

\* a guard that compares the text without trimming it
SubmitRejected_NoTrim(text) == text = ""

\* if (!input.trim()) return;
SubmitRejected(text) == Trim(text) = ""

\* the form's submit event: handleSubmit up to its fetch.  For blank text the
\* submit button is disabled as well; the handler's own check is what is
\* modelled here.
Submit ==
    /\ ~effectPending
    /\ ~SubmitBlocked
    /\ IF SubmitRejected(input)
       THEN UNCHANGED vars
       ELSE /\ isProcessing' = TRUE
            /\ hasResults' = FALSE
            /\ designDocument' = ""
            /\ diagramUrl' = ""
            /\ error' = ""
            /\ architectureExists' = Null
            /\ genPc' = "awaitGenerate"
            /\ displayedFrom' = "none"
            /\ effectPending' = (diagramUrl # "")
            /\ Commit(FALSE, activeTab, "", resolvedDiagramUrl)
            /\ UNCHANGED <<apiBaseUrl, saveVars, listFetches, input, activeTab,
                           savedArchitectures, isLoadingSaved, showSavedDropdown,
                           loadsInFlight, resolvedDiagramUrl, diagramTriedProxy,
                           validationState, panelVars, orchestratorVars>>

\* handleSubmit after a successful response, up to the existence check's fetch
GenerateOk(data) ==
    /\ ~effectPending
    /\ genPc = "awaitGenerate"
    /\ designDocument' = IF data.design_document # "" THEN data.design_document
                         ELSE "No design document generated"
    /\ diagramUrl' = data.diagram_url
    /\ hasResults' = TRUE
    /\ displayedFrom' = "generation"
    /\ effectPending' = (data.diagram_url # diagramUrl)
    /\ Commit(TRUE, activeTab, data.diagram_url, resolvedDiagramUrl)
    /\ IF data.design_document = ""
       THEN /\ isProcessing' = FALSE
            /\ genPc' = "idle"
            /\ UNCHANGED architectureExists
       ELSE IF Trim(data.design_document) = ""
       THEN /\ architectureExists' = Null
            /\ isProcessing' = FALSE
            /\ genPc' = "idle"
       ELSE /\ genPc' = "awaitExists"
            /\ UNCHANGED <<isProcessing, architectureExists>>
    /\ UNCHANGED <<apiBaseUrl, saveVars, listFetches,
                   input, activeTab, error, savedArchitectures,
                   isLoadingSaved, showSavedDropdown, loadsInFlight,
                   resolvedDiagramUrl, diagramTriedProxy, validationState, panelVars,
                   orchestratorVars>>

\* ways the generation request fails: a non-ok status with or without a
\* {detail} body, or a rejected fetch
GenerationErrors ==
    { [kind |-> "status", detail |-> "quota exceeded", message |-> ""],
      [kind |-> "status", detail |-> "", message |-> ""],
      [kind |-> "reject", detail |-> "", message |-> "Failed to fetch"] }

\* the message handleSubmit's catch stores:
\* errorData.detail || `HTTP ${status}: ${statusText}`, and
\* error.message || 'Something went wrong. Please try again.'
FailureMessage(failure) ==
    LET thrown == IF failure.kind = "status"
                  THEN IF failure.detail # "" THEN failure.detail
                       ELSE "HTTP 500: Internal Server Error"
                  ELSE failure.message
    IN IF thrown # "" THEN thrown ELSE "Something went wrong. Please try again."

\* handleSubmit when the fetch rejects or the status is not ok
GenerateFail(failure) ==
    /\ ~effectPending
    /\ genPc = "awaitGenerate"
    /\ error' = FailureMessage(failure)
    /\ isProcessing' = FALSE
    /\ genPc' = "idle"
    /\ UNCHANGED <<apiBaseUrl, saveVars, listFetches, displayedFrom,
                   input, activeTab, hasResults, architectureExists,
                   designDocument, diagramUrl, savedArchitectures, isLoadingSaved,
                   showSavedDropdown, loadsInFlight, resolverVars, domVars,
                   validationState, panelVars, orchestratorVars>>

\* checkArchitectureExists from its response on, and handleSubmit's finally
ExistsResponse(result) ==
    /\ ~effectPending
    /\ genPc = "awaitExists"
    /\ architectureExists' = result
    /\ isProcessing' = FALSE
    /\ genPc' = "idle"
    /\ UNCHANGED <<apiBaseUrl, saveVars, listFetches, displayedFrom,
                   input, activeTab, hasResults, error, designDocument,
                   diagramUrl, savedArchitectures, isLoadingSaved, showSavedDropdown,
                   loadsInFlight, resolverVars, domVars, validationState, panelVars,
                   orchestratorVars>>

ExistsResults == {Null, NotSaved, Saved(CHOOSE r \in SavedRecords : r.id = "a1")}

-----------------------------------------------------------------------------
(* DashboardPage: handleLoadArchitecture *)

\* the state updates of handleLoadArchitecture once it holds the full record
ApplyLoaded(architecture) ==
    /\ designDocument' = architecture.design_document
    /\ diagramUrl' = architecture.diagram_url
    /\ input' = ""
    /\ hasResults' = TRUE
    /\ displayedFrom' = "load"
    /\ error' = ""
    /\ showSavedDropdown' = FALSE
    /\ architectureExists' = Saved(architecture)
    /\ effectPending' = (architecture.diagram_url # diagramUrl)
    /\ Commit(TRUE, activeTab, architecture.diagram_url, resolvedDiagramUrl)
    /\ IF input # "" THEN RestartDebounce("") ELSE UNCHANGED debounceTimer
    /\ UNCHANGED <<apiBaseUrl, saveVars, listFetches,
                   isProcessing, activeTab, savedArchitectures,
                   isLoadingSaved, genPc, resolvedDiagramUrl, diagramTriedProxy,
                   validationState, panelVars, cycles, cycleCount, publishCount,
                   apiCalls>>

\* a click on an entry of the dropdown
LoadArchitecture(arch) ==
    /\ ~effectPending
    /\ showSavedDropdown
    /\ arch \in savedArchitectures
    /\ IF arch.design_document = ""
       THEN /\ Cardinality(loadsInFlight) < MaxLoads
            /\ arch.id \notin loadsInFlight
            /\ loadsInFlight' = loadsInFlight \cup {arch.id}
            /\ UNCHANGED <<apiBaseUrl, saveVars, listFetches, displayedFrom,
                           input, isProcessing, activeTab, hasResults,
                           error, architectureExists, designDocument, diagramUrl,
                           savedArchitectures, isLoadingSaved, showSavedDropdown,
                           genPc, resolverVars, domVars, validationState, panelVars,
                           orchestratorVars>>
       ELSE /\ ApplyLoaded(arch)
            /\ UNCHANGED loadsInFlight

\* the load-by-id response arrives with the record
LoadResponseOk(id) ==
    /\ ~effectPending
    /\ id \in loadsInFlight
    /\ loadsInFlight' = loadsInFlight \ {id}
    /\ \E rec \in SavedRecords : rec.id = id /\ ApplyLoaded(rec)

\* a failure path that also forgets what is known about the saved state
LoadResponseFail_ResetsExists(id) ==
    /\ ~effectPending
    /\ id \in loadsInFlight
    /\ loadsInFlight' = loadsInFlight \ {id}
    /\ error' = "Failed to load architecture: Failed to load architecture"
    /\ architectureExists' = Null
    /\ UNCHANGED <<apiBaseUrl, saveVars, listFetches, displayedFrom,
                   input, isProcessing, activeTab, hasResults,
                   designDocument, diagramUrl, savedArchitectures,
                   isLoadingSaved, showSavedDropdown, genPc, resolverVars, domVars,
                   validationState, panelVars, orchestratorVars>>

\* the load-by-id fetch rejects or its status is not ok
LoadResponseFail(id) ==
    /\ ~effectPending
    /\ id \in loadsInFlight
    /\ loadsInFlight' = loadsInFlight \ {id}
    /\ error' = "Failed to load architecture: Failed to load architecture"
    /\ UNCHANGED <<apiBaseUrl, saveVars, listFetches, displayedFrom,
                   input, isProcessing, activeTab, hasResults,
                   architectureExists, designDocument, diagramUrl, savedArchitectures,
                   isLoadingSaved, showSavedDropdown, genPc, resolverVars, domVars,
                   validationState, panelVars, orchestratorVars>>

-----------------------------------------------------------------------------
(* DashboardPage: handleSaveArchitecture and the save button *)

\* {hasResults && !isProcessing && ( ... <button> ... )}
SaveButtonShown == hasResults /\ ~isProcessing

\* disabled={isSaving || architectureExists}
SaveButtonDisabled == isSaving \/ architectureExists.kind = "architecture"

\* a click on the save button: handleSaveArchitecture up to its fetch
Save ==
    /\ ~effectPending
    /\ SaveButtonShown
    /\ ~SaveButtonDisabled
    /\ IF designDocument = "" \/ ~hasResults
       THEN UNCHANGED vars
       ELSE /\ isSaving' = TRUE
            /\ savePc' = "awaitSave"
            /\ UNCHANGED <<apiBaseUrl, pageVars, lastAlert, deletesInFlight,
                           exportVars, resolverVars, domVars, validationState,
                           panelVars, orchestratorVars>>

\* answers of the save endpoint: {already_exists, saved_item}
SaveResults ==
    { [already_exists |-> b, saved_item |-> Saved(CHOOSE r \in SavedRecords : r.id = "a1")] :
        b \in BOOLEAN }

\* handleSaveArchitecture after an ok response, up to the list reload's fetch
SaveResponseOk(result) ==
    /\ ~effectPending
    /\ savePc = "awaitSave"
    /\ lastAlert' = IF result.already_exists
                    THEN "This architecture already exists in your saved collection!"
                    ELSE "Architecture saved successfully!"
    /\ architectureExists' = result.saved_item
    /\ isLoadingSaved' = TRUE
    /\ listFetches' = listFetches \cup {"save"}
    /\ savePc' = "awaitList"
    /\ UNCHANGED <<apiBaseUrl, input, isProcessing, activeTab, hasResults, error,
                   designDocument, diagramUrl, savedArchitectures, showSavedDropdown,
                   genPc, loadsInFlight, displayedFrom, isSaving, deletesInFlight,
                   exportVars, resolverVars, domVars, validationState, panelVars,
                   orchestratorVars>>

\* a failure path that also resets the validation state
SaveResponseFail_ResetsValidation ==
    /\ ~effectPending
    /\ savePc = "awaitSave"
    /\ lastAlert' = "Failed to save architecture: Failed to save architecture"
    /\ isSaving' = FALSE
    /\ savePc' = "idle"
    /\ validationState' = EmptyValidationState
    /\ UNCHANGED <<apiBaseUrl, pageVars, deletesInFlight, exportVars, resolverVars,
                   domVars, panelVars, orchestratorVars>>

\* handleSaveArchitecture when the fetch rejects or the status is not ok
SaveResponseFail ==
    /\ ~effectPending
    /\ savePc = "awaitSave"
    /\ lastAlert' = "Failed to save architecture: Failed to save architecture"
    /\ isSaving' = FALSE
    /\ savePc' = "idle"
    /\ UNCHANGED <<apiBaseUrl, pageVars, deletesInFlight, exportVars, resolverVars,
                   domVars, validationState, panelVars, orchestratorVars>>

-----------------------------------------------------------------------------
(* DashboardPage: handleDeleteArchitecture *)

\* a click on the delete button of a dropdown entry, with the answer given
\* to confirm(): handleDeleteArchitecture up to its fetch
DeleteArchitecture(id, confirmed) ==
    /\ ~effectPending
    /\ showSavedDropdown
    /\ \E arch \in savedArchitectures : arch.id = id
    /\ Cardinality(deletesInFlight) < MaxDeletes
    /\ id \notin deletesInFlight
    /\ IF ~confirmed
       THEN UNCHANGED vars
       ELSE /\ deletesInFlight' = deletesInFlight \cup {id}
            /\ UNCHANGED <<apiBaseUrl, pageVars, isSaving, savePc, lastAlert,
                           exportVars, resolverVars, domVars, validationState,
                           panelVars, orchestratorVars>>

\* handleDeleteArchitecture after an ok response, up to the list reload's fetch
DeleteResponseOk(id) ==
    /\ ~effectPending
    /\ id \in deletesInFlight
    /\ deletesInFlight' = deletesInFlight \ {id}
    /\ lastAlert' = "Architecture deleted successfully!"
    /\ isLoadingSaved' = TRUE
    /\ listFetches' = listFetches \cup {"delete " \o id}
    /\ UNCHANGED <<apiBaseUrl, input, isProcessing, activeTab, hasResults, error,
                   architectureExists, designDocument, diagramUrl, savedArchitectures,
                   showSavedDropdown, genPc, loadsInFlight, displayedFrom, isSaving,
                   savePc, exportVars, resolverVars, domVars, validationState,
                   panelVars, orchestratorVars>>

\* handleDeleteArchitecture when the fetch rejects or the status is not ok
DeleteResponseFail(id) ==
    /\ ~effectPending
    /\ id \in deletesInFlight
    /\ deletesInFlight' = deletesInFlight \ {id}
    /\ lastAlert' = "Failed to delete architecture: Failed to delete architecture"
    /\ UNCHANGED <<apiBaseUrl, pageVars, isSaving, savePc, exportVars, resolverVars,
                   domVars, validationState, panelVars, orchestratorVars>>

-----------------------------------------------------------------------------
(* DashboardPage: export of the document and of the diagram *)

\* the toast; success messages are kept without the file name they end with
Toast(type, message) == [kind |-> "toast", type |-> type, message |-> message]

\* a click on the document tab's Export button: exportDesignDocument; the
\* download either works or createObjectURL/click throws
ExportDesignDocument(works) ==
    /\ ~effectPending
    /\ hasResults
    /\ activeTab = "document"
    /\ designDocument # ""
    /\ exportStatus' = IF works
                       THEN Toast("success", "Design document exported")
                       ELSE Toast("error", "Failed to export design document")
    /\ UNCHANGED <<apiBaseUrl, pageVars, isSaving, savePc, lastAlert, deletesInFlight,
                   isExporting, exportPc, resolverVars, domVars, validationState,
                   panelVars, orchestratorVars>>

\* a click on the diagram tab's Export button: exportDiagramPNG up to its
\* fetch (https reference) or to its end (reference served by the backend)
ExportDiagramPNG ==
    /\ ~effectPending
    /\ hasResults
    /\ activeTab = "diagram"
    /\ diagramUrl # ""
    /\ ~isExporting
    /\ IF StartsWith(diagramUrl, "https://")
       THEN /\ isExporting' = TRUE
            /\ exportPc' = "awaitBlob"
            /\ UNCHANGED exportStatus
       ELSE /\ exportStatus' = Toast("success", "Diagram exported")
            /\ UNCHANGED <<isExporting, exportPc>>
    /\ UNCHANGED <<apiBaseUrl, pageVars, isSaving, savePc, lastAlert, deletesInFlight,
                   resolverVars, domVars, validationState, panelVars,
                   orchestratorVars>>

\* exportDiagramPNG after its fetch: the blob is downloaded, or the catch
\* opens the image in a new tab (opened) or reports the failure
ExportFetchDone(ok, opened) ==
    /\ ~effectPending
    /\ exportPc = "awaitBlob"
    /\ exportStatus' =
          IF ok THEN Toast("success", "Diagram exported")
          ELSE IF opened
          THEN Toast("error", "Image opened in new tab. Right-click to save manually.")
          ELSE Toast("error", "Export failed. Right-click on the diagram and select \"Save image as...\"")
    /\ isExporting' = FALSE
    /\ exportPc' = "idle"
    /\ UNCHANGED <<apiBaseUrl, pageVars, isSaving, savePc, lastAlert, deletesInFlight,
                   resolverVars, domVars, validationState, panelVars,
                   orchestratorVars>>

\* the toast's 5 s timer or its close button: setExportStatus(null)
DismissToast ==
    /\ ~effectPending
    /\ exportStatus # Null
    /\ exportStatus' = Null
    /\ UNCHANGED <<apiBaseUrl, pageVars, isSaving, savePc, lastAlert, deletesInFlight,
                   isExporting, exportPc, resolverVars, domVars, validationState,
                   panelVars, orchestratorVars>>

-----------------------------------------------------------------------------
(* Artifact Resolver: the [diagramUrl] effect and the <img> events.  The     *)
(* effect is flushed after the commit that changed diagramUrl and before any *)
(* other handler runs, so every other action waits for it.                   *)

\* useEffect(..., [diagramUrl])
ResolveEffect ==
    /\ effectPending
    /\ resolvedDiagramUrl' = FirstResolvedUrl(diagramUrl)
    /\ diagramTriedProxy' = FALSE
    /\ effectPending' = FALSE
    /\ Commit(hasResults, activeTab, diagramUrl, FirstResolvedUrl(diagramUrl))
    /\ UNCHANGED <<apiBaseUrl, pageVars, saveVars, validationState, panelVars, orchestratorVars>>

\* <img onLoad>
ImgLoaded ==
    /\ ~effectPending
    /\ ImgMounted
    /\ imgLoad = "loading"
    /\ imgLoad' = "loaded"
    /\ UNCHANGED <<apiBaseUrl, pageVars, saveVars, resolverVars, imgHidden, placeholderDisplay,
                   validationState, panelVars, orchestratorVars>>

\* <img onError>
ImgError ==
    /\ ~effectPending
    /\ ImgMounted
    /\ imgLoad = "loading"
    /\ IF RetryAllowed(diagramTriedProxy)
       THEN /\ resolvedDiagramUrl' = FallbackUrl(diagramUrl)
            /\ diagramTriedProxy' = TRUE
            /\ imgLoad' = IF FallbackUrl(diagramUrl) # resolvedDiagramUrl
                          THEN "loading" ELSE "failed"
            /\ UNCHANGED <<imgHidden, placeholderDisplay>>
       ELSE /\ imgHidden' = TRUE
            /\ placeholderDisplay' = "block"
            /\ imgLoad' = "failed"
            /\ UNCHANGED <<resolvedDiagramUrl, diagramTriedProxy>>
    /\ UNCHANGED <<apiBaseUrl, pageVars, saveVars, effectPending, validationState, panelVars,
                   orchestratorVars>>

-----------------------------------------------------------------------------
(* validationService.js (the service module ValidationPanel imports) *)

azureKeywords ==
    <<"AppServices", "ContainerApps", "ACR", "AKS", "FunctionApps", "SQLDatabases",
      "CosmosDb", "CacheForRedis", "BlobStorage", "KeyVaults", "StaticWebApps",
      "ApplicationGateway", "LoadBalancer">>

\* a filter that compares without lower-casing
KeywordMatches_CaseSensitive(text, keyword) == Includes(text, keyword)

\* text.toLowerCase().includes(keyword.toLowerCase())
KeywordMatches(text, keyword) == Includes(ToLowerCase(text), ToLowerCase(keyword))

\* validateTextComponents: azureKeywords.filter(...)
DetectedIn(text) == SelectSeq(azureKeywords, LAMBDA k : KeywordMatches(text, k))

DefaultArchitectureTypes == <<"frontend", "backend", "database", "cache">>

Range(seq) == {seq[i] : i \in DOMAIN seq}

ValidationResult(name, valid) ==
    [valid |-> valid, canonical |-> name, submodule |-> "azure"]

\* validation_results maps the validation endpoint may answer with
ValidationResponses(names) ==
    UNION { [S -> BOOLEAN] : S \in SUBSET Range(names) }

ResultsOf(answer) == [n \in DOMAIN answer |-> ValidationResult(n, answer[n])]

Suggestion(i) == [component |-> i, usage |-> "usage", submodule |-> "azure"]

SuggestionLengths == {0, MaxSuggestionsReturned}

\* suggestions lists the suggestion endpoint may answer with
SuggestionResponses == { [i \in 1..n |-> Suggestion(i)] : n \in SuggestionLengths }

ValidateCall(description, names) ==
    [endpoint |-> "validate-components", description |-> description,
     component_names |-> names, architecture_types |-> <<>>]

SuggestCall(description) ==
    [endpoint |-> "suggest-architecture", description |-> description,
     component_names |-> <<>>, architecture_types |-> DefaultArchitectureTypes]

-----------------------------------------------------------------------------
(* ValidationPanel: the debounced validateDescription *)

\* a length test that is off by one
TooShort_OffByOne(description) ==
    description = "" \/ Len(description) < MinDescriptionLength - 1

\* !description || description.length < 10
TooShort(description) == description = "" \/ Len(description) < MinDescriptionLength

\* list.slice(0, 5)
Slice(list, n) == SubSeq(list, 1, IF Len(list) < n THEN Len(list) ELSE n)

\* hasErrors computed with every() instead of some()
HasErrors_Every(results) == \A n \in DOMAIN results : ~results[n].valid

\* Object.values(results || {}).some(r => !r.valid)
HasErrors(results) == \E n \in DOMAIN results : ~results[n].valid

Remove(seq, i) == SubSeq(seq, 1, i - 1) \o SubSeq(seq, i + 1, Len(seq))

\* the timer fires: validateDescription up to its first fetch
TimerFires ==
    /\ ~effectPending
    /\ debounceTimer.status = "pending"
    /\ debounceTimer' = [debounceTimer EXCEPT !.status = "fired"]
    /\ LET description == debounceTimer.description
           detected == DetectedIn(description)
       IN IF TooShort(description)
          THEN UNCHANGED <<panelVars, cycles, cycleCount, apiCalls>>
          ELSE /\ cycleCount < MaxCycles
               /\ cycleCount' = cycleCount + 1
               /\ isValidating' = TRUE
               /\ UNCHANGED suggestions
               /\ IF detected = <<>>
                  THEN /\ validationResults' = EmptyMap
                       /\ detectedComponents' = <<>>
                       /\ apiCalls' = apiCalls \cup {SuggestCall(description)}
                       /\ cycles' = Append(cycles,
                              [id |-> cycleCount + 1, description |-> description,
                               pc |-> "awaitSuggest", detected |-> detected,
                               success |-> TRUE, validationResults |-> EmptyMap])
                  ELSE /\ apiCalls' = apiCalls \cup {ValidateCall(description, detected)}
                       /\ cycles' = Append(cycles,
                              [id |-> cycleCount + 1, description |-> description,
                               pc |-> "awaitValidate", detected |-> detected,
                               success |-> TRUE, validationResults |-> EmptyMap])
                       /\ UNCHANGED <<validationResults, detectedComponents>>
    /\ UNCHANGED <<apiBaseUrl, pageVars, saveVars, resolverVars, domVars, validationState,
                   publishCount>>

\* a continuation that pushes the validation results to the page at once
AfterValidation_PartialPush(i, success, results) ==
    /\ validationResults' = results
    /\ detectedComponents' = cycles[i].detected
    /\ apiCalls' = apiCalls \cup {SuggestCall(cycles[i].description)}
    /\ cycles' = [cycles EXCEPT ![i].pc = "awaitSuggest",
                                ![i].success = success,
                                ![i].validationResults = results]
    /\ validationState' = [validationResults |-> results, suggestions |-> <<>>,
                           hasErrors |-> \E n \in DOMAIN results : ~results[n].valid]
    /\ publishCount' = publishCount + 1
    /\ UNCHANGED <<apiBaseUrl, pageVars, saveVars, resolverVars, domVars,
                   suggestions, isValidating, debounceTimer, cycleCount>>

\* validateDescription after validateTextComponents resolved with
\* {success, validationResults: results, detectedComponents}
AfterValidation(i, success, results) ==
    /\ validationResults' = results
    /\ detectedComponents' = cycles[i].detected
    /\ apiCalls' = apiCalls \cup {SuggestCall(cycles[i].description)}
    /\ cycles' = [cycles EXCEPT ![i].pc = "awaitSuggest",
                                ![i].success = success,
                                ![i].validationResults = results]
    /\ UNCHANGED <<apiBaseUrl, pageVars, saveVars, resolverVars, domVars, validationState,
                   suggestions, isValidating, debounceTimer, cycleCount, publishCount>>

\* the validation endpoint answers cycle i's request
ValidateResponseOk(i) ==
    /\ ~effectPending
    /\ i \in DOMAIN cycles
    /\ cycles[i].pc = "awaitValidate"
    /\ \E answer \in ValidationResponses(cycles[i].detected) :
          AfterValidation(i, TRUE, ResultsOf(answer))

\* a failure that escapes validateAzureComponents: validateDescription's catch
\* and finally run, nothing is published
ValidateResponseFail_Throws(i) ==
    /\ ~effectPending
    /\ i \in DOMAIN cycles
    /\ cycles[i].pc = "awaitValidate"
    /\ isValidating' = FALSE
    /\ cycles' = Remove(cycles, i)
    /\ UNCHANGED <<apiBaseUrl, pageVars, saveVars, resolverVars, domVars, validationState,
                   validationResults, suggestions, detectedComponents, debounceTimer,
                   cycleCount, publishCount, apiCalls>>

\* cycle i's validation request fails: validateAzureComponents' catch
ValidateResponseFail(i) ==
    /\ ~effectPending
    /\ i \in DOMAIN cycles
    /\ cycles[i].pc = "awaitValidate"
    /\ AfterValidation(i, FALSE, EmptyMap)

\* validateDescription after getArchitectureSuggestions resolved with `list`
AfterSuggestions(i, list) ==
    /\ suggestions' = Slice(list, MaxShownSuggestions)
    /\ validationState' =
          [validationResults |-> cycles[i].validationResults,
           suggestions |-> list,
           hasErrors |-> HasErrors(cycles[i].validationResults)]
    /\ publishCount' = publishCount + 1
    /\ isValidating' = FALSE
    /\ cycles' = Remove(cycles, i)
    /\ UNCHANGED <<apiBaseUrl, pageVars, saveVars, resolverVars, domVars, validationResults,
                   detectedComponents, debounceTimer, cycleCount, apiCalls>>

\* the suggestion endpoint answers cycle i's request
SuggestResponseOk(i) ==
    /\ ~effectPending
    /\ i \in DOMAIN cycles
    /\ cycles[i].pc = "awaitSuggest"
    /\ \E list \in SuggestionResponses : AfterSuggestions(i, list)

\* cycle i's suggestion request fails: getArchitectureSuggestions' catch
SuggestResponseFail(i) ==
    /\ ~effectPending
    /\ i \in DOMAIN cycles
    /\ cycles[i].pc = "awaitSuggest"
    /\ AfterSuggestions(i, <<>>)

-----------------------------------------------------------------------------
(* ValidationPanel: what the panel renders *)

\* the panel renders its results (not the hint shown for a short description)
PanelRendersResults == ~TooShort(input)

\* the row of a detected component: isValid = validation?.valid || false
PanelShowsValid(component) ==
    /\ component \in DOMAIN validationResults
    /\ validationResults[component].valid

\* the panel shows the row of some detected component as invalid
PanelShowsInvalidComponent ==
    /\ PanelRendersResults
    /\ \E k \in DOMAIN detectedComponents : ~PanelShowsValid(detectedComponents[k])

-----------------------------------------------------------------------------
(* Initial state: the page is mounted, its mount effects have run *)

Init ==
    /\ apiBaseUrl \in ApiBaseUrls
    /\ input = ""
    /\ isProcessing = FALSE
    /\ activeTab = "document"
    /\ hasResults = FALSE
    /\ error = ""
    /\ architectureExists = Null
    /\ validationState = EmptyValidationState
    /\ designDocument = ""
    /\ diagramUrl = ""
    /\ resolvedDiagramUrl = ""
    /\ diagramTriedProxy = FALSE
    /\ savedArchitectures = {}
    /\ isLoadingSaved = TRUE
    /\ showSavedDropdown = FALSE
    /\ effectPending = FALSE
    /\ imgLoad = "none"
    /\ imgHidden = FALSE
    /\ placeholderDisplay = "none"
    /\ genPc = "idle"
    /\ loadsInFlight = {}
    /\ validationResults = EmptyMap
    /\ suggestions = <<>>
    /\ isValidating = FALSE
    /\ detectedComponents = <<>>
    /\ debounceTimer = [status |-> "pending", description |-> ""]
    /\ cycles = <<>>
    /\ cycleCount = 0
    /\ listFetches = {"mount"}
    /\ displayedFrom = "none"
    /\ isSaving = FALSE
    /\ savePc = "idle"
    /\ lastAlert = ""
    /\ deletesInFlight = {}
    /\ exportStatus = Null
    /\ isExporting = FALSE
    /\ exportPc = "idle"
    /\ publishCount = 0
    /\ apiCalls = {}

-----------------------------------------------------------------------------
(* Specifications *)

\* the page with its resolver; the panel's timer never fires
NextResolver ==
    \/ \E text \in {"", "AKS & ACR."} : SetInput(text)
    \/ \E tab \in {"document", "diagram"} : SetActiveTab(tab)
    \/ ToggleSavedDropdown
    \/ \E owner \in listFetches : LoadSavedArchitecturesDone(owner)
    \/ Submit
    \/ \E data \in GenerationResponses : GenerateOk(data)
    \/ \E failure \in GenerationErrors : GenerateFail(failure)
    \/ \E result \in ExistsResults : ExistsResponse(result)
    \/ \E arch \in savedArchitectures : LoadArchitecture(arch)
    \/ \E id \in loadsInFlight : LoadResponseOk(id)
    \/ \E id \in loadsInFlight : LoadResponseFail(id)
    \/ ResolveEffect
    \/ ImgLoaded
    \/ ImgError

SpecResolver == Init /\ [][NextResolver]_vars

\* the text input with the validation panel
NextValidation ==
    \/ \E text \in Texts : SetInput(text)
    \/ TimerFires
    \/ \E i \in 1..MaxCycles : ValidateResponseOk(i)
    \/ \E i \in 1..MaxCycles : ValidateResponseFail(i)
    \/ \E i \in 1..MaxCycles : SuggestResponseOk(i)
    \/ \E i \in 1..MaxCycles : SuggestResponseFail(i)

SpecValidation == Init /\ [][NextValidation]_vars

\* descriptions that name components, in several spellings
ExtractionTexts ==
    {"", "Use AppServices and CosmosDb with CacheForRedis", "it breaks often",
     "web app and a database"}

\* the validation panel on descriptions that name components, edited no
\* faster than the service answers: a timer fires when no cycle is in flight
NextExtraction ==
    \/ \E text \in ExtractionTexts : SetInput(text)
    \/ cycles = <<>> /\ TimerFires
    \/ \E i \in 1..MaxCycles : ValidateResponseOk(i)
    \/ \E i \in 1..MaxCycles : ValidateResponseFail(i)
    \/ \E i \in 1..MaxCycles : SuggestResponseOk(i)
    \/ \E i \in 1..MaxCycles : SuggestResponseFail(i)

SpecExtraction == Init /\ [][NextExtraction]_vars

\* texts typed into the textarea before a submission
SubmissionTexts == {"", "   ", "AKS & ACR."}

\* the page with its generate, load and save handlers (document tab)
NextPersistence ==
    \/ \E text \in SubmissionTexts : SetInput(text)
    \/ ToggleSavedDropdown
    \/ \E owner \in listFetches : LoadSavedArchitecturesDone(owner)
    \/ Submit
    \/ \E data \in GenerationResponses : GenerateOk(data)
    \/ \E failure \in GenerationErrors : GenerateFail(failure)
    \/ \E result \in ExistsResults : ExistsResponse(result)
    \/ \E arch \in savedArchitectures : LoadArchitecture(arch)
    \/ \E id \in loadsInFlight : LoadResponseOk(id)
    \/ \E id \in loadsInFlight : LoadResponseFail(id)
    \/ ResolveEffect
    \/ Save
    \/ \E result \in SaveResults : SaveResponseOk(result)
    \/ SaveResponseFail

SpecPersistence == Init /\ [][NextPersistence]_vars

\* no request of the page or of the panel is awaiting its answer
Quiet ==
    /\ genPc = "idle"
    /\ loadsInFlight = {}
    /\ savePc = "idle"
    /\ deletesInFlight = {}
    /\ exportPc = "idle"
    /\ listFetches = {}
    /\ cycles = <<>>

\* nothing is awaited and the debounce timer is not running
Settled == Quiet /\ debounceTimer.status # "pending"

\* one answer of each collaborator, enough for every handler to run
OwnershipGeneration == [design_document |-> "docA", diagram_url |-> BlobRef]
\* the entry of the saved list the user works with
OwnershipEntry == "a2"
OwnershipFailure == [kind |-> "status", detail |-> "quota exceeded", message |-> ""]
OwnershipSaveResult ==
    [already_exists |-> FALSE, saved_item |-> Saved(CHOOSE r \in SavedRecords : r.id = "a1")]

InitOwnership == Init /\ apiBaseUrl = "https://backend.example.io"

\* every handler of the page and the panel, for a user who starts one
\* operation at a time and waits for its answer
NextOwnership ==
    \/ SetInput("an AKS cluster")
    \/ Quiet /\ TimerFires
    \/ \E i \in 1..MaxCycles : ValidateResponseOk(i) /\ HasErrors(validationResults')
    \/ \E i \in 1..MaxCycles : ValidateResponseFail(i)
    \/ \E i \in 1..MaxCycles : SuggestResponseOk(i)
    \/ \E i \in 1..MaxCycles : SuggestResponseFail(i)
    \/ \E tab \in {"document", "diagram"} : SetActiveTab(tab)
    \/ ToggleSavedDropdown
    \/ \E owner \in listFetches :
          LoadSavedArchitecturesDone(owner)
            /\ savedArchitectures' = {Summary(r) : r \in SavedRecords}
    \/ Settled /\ Submit
    \/ GenerateOk(OwnershipGeneration)
    \/ GenerateFail(OwnershipFailure)
    \/ ExistsResponse(NotSaved)
    \/ Settled /\ \E arch \in savedArchitectures :
                     arch.id = OwnershipEntry /\ LoadArchitecture(arch)
    \/ \E id \in loadsInFlight : LoadResponseOk(id)
    \/ \E id \in loadsInFlight : LoadResponseFail(id)
    \/ ResolveEffect
    \/ ImgLoaded
    \/ ImgError
    \/ Settled /\ Save
    \/ SaveResponseOk(OwnershipSaveResult)
    \/ SaveResponseFail
    \/ Settled /\ DeleteArchitecture(OwnershipEntry, TRUE)
    \/ \E id \in deletesInFlight : DeleteResponseOk(id)
    \/ \E id \in deletesInFlight : DeleteResponseFail(id)
    \/ ExportDesignDocument(TRUE)
    \/ Settled /\ ExportDiagramPNG
    \/ ExportFetchDone(TRUE, TRUE)
    \/ DismissToast

SpecOwnership == InitOwnership /\ [][NextOwnership]_vars

Next ==
    \/ NextResolver
    \/ NextValidation
    \/ NextExtraction
    \/ NextPersistence
    \/ NextOwnership

Spec == Init /\ [][Next]_vars

-----------------------------------------------------------------------------
(* Properties of the Artifact Resolver *)

\* the references the spec classifies as absolute storage URLs
ClassifiedStorage(ref) ==
    StartsWith(ref, "https://") /\ Includes(ref, ".blob.core.windows.net")

\* percent-encodings of the model's references, written out
ExpectedEncoded(ref) ==
    CASE ref = BlobRef ->
            "https%3A%2F%2Fstore.blob.core.windows.net%2Fdiagrams%2Fx.png"
      [] ref = RelativeRef -> "%2Fstatic%2Fdiagrams%2Fx.png"
      [] ref = QueryRef -> "%2Fd%2Fa%20b.png%3Fv%3D1%26k%3D2"
      [] ref = OtherAbsoluteRef -> "https%3A%2F%2Fexample.com%2Fx.png"

ExpectedProxyUrl(ref) ==
    apiBaseUrl \o "/api/proxy/diagram?url=" \o ExpectedEncoded(ref)

IsProxied(url) == Includes(url, "/api/proxy/diagram?url=")

\* the reference is resolved and no load error has been handled since
FirstResolution == diagramUrl # "" /\ ~effectPending /\ ~diagramTriedProxy

\* a first load error on a resolved reference
FirstLoadError == ImgError /\ ~effectPending /\ ~diagramTriedProxy

\* C2: after the first image-load error the resolved URL switches between
\* proxied and direct, and differs from the URL that just failed.
C2_FirstFailureSwitchesMode ==
    [][FirstLoadError =>
         /\ resolvedDiagramUrl' # resolvedDiagramUrl
         /\ IsProxied(resolvedDiagramUrl') # IsProxied(resolvedDiagramUrl)]_vars

\* C3: once the fallback has been issued the resolved URL changes no more until
\* the reference is resolved anew, and a further load error issues no URL and
\* hides the image and shows the placeholder.
C3_RetryBudget ==
    [][/\ (diagramTriedProxy /\ ~(effectPending /\ ~effectPending'))
            => resolvedDiagramUrl' = resolvedDiagramUrl
       /\ (ImgError /\ diagramTriedProxy)
            => /\ resolvedDiagramUrl' = resolvedDiagramUrl
               /\ diagramTriedProxy'
               /\ imgHidden'
               /\ placeholderDisplay' = "block"]_vars

\* a second load error has been handled: the reference is exhausted
C3_Witness ==
    /\ ImgMounted
    /\ ~effectPending
    /\ diagramTriedProxy
    /\ resolvedDiagramUrl # FirstResolvedUrl(diagramUrl)
    /\ imgLoad = "failed"
    /\ imgHidden
    /\ placeholderDisplay = "block"

\* C4: the first resolved URL of an absolute storage reference is
\* {backendBaseURL}/api/proxy/diagram?url={percent-encoded reference}.
C4_StorageReferenceProxied ==
    (FirstResolution /\ ClassifiedStorage(diagramUrl))
        => resolvedDiagramUrl = ExpectedProxyUrl(diagramUrl)

\* a storage reference is resolved on a non-empty backend and offered to the image
C4_Witness ==
    /\ FirstResolution
    /\ diagramUrl = BlobRef
    /\ apiBaseUrl # ""
    /\ imgLoad = "loading"

\* C5: the first resolved URL of every other non-empty reference is
\* {backendBaseURL}{reference}.
C5_RelativeReferenceDirect ==
    (FirstResolution /\ ~ClassifiedStorage(diagramUrl))
        => resolvedDiagramUrl = apiBaseUrl \o diagramUrl

\* an absolute reference outside the object store is resolved and offered
C5_Witness ==
    /\ FirstResolution
    /\ diagramUrl = OtherAbsoluteRef
    /\ apiBaseUrl # ""
    /\ imgLoad = "loading"

\* C6: on the first load error the fallback is the raw reference when the
\* reference was classified absolute at its resolution, and the proxy URL of
\* the reference when it was classified relative.
C6_FallbackSelection ==
    [][FirstLoadError =>
         resolvedDiagramUrl' = IF ClassifiedStorage(diagramUrl)
                               THEN diagramUrl
                               ELSE ExpectedProxyUrl(diagramUrl)]_vars

\* C7: resolving a newly set reference offers its first-mode URL, restores the
\* retry budget and clears the exhausted presentation.
C7_NewReferenceResets ==
    [][(ResolveEffect /\ diagramUrl # "") =>
         /\ resolvedDiagramUrl' = FirstResolvedUrl(diagramUrl)
         /\ ~diagramTriedProxy'
         /\ ~imgHidden'
         /\ placeholderDisplay' = "none"]_vars

\* C8: for a non-empty reference the placeholder is shown exactly when the image
\* is hidden, and only after the fallback was used and the image failed again.
C8_PlaceholderOnlyWhenExhausted ==
    (PlaceholderMounted /\ diagramUrl # "" /\ ~effectPending) =>
        /\ (placeholderDisplay = "block") <=> imgHidden
        /\ (placeholderDisplay = "block") => (diagramTriedProxy /\ imgLoad = "failed")

-----------------------------------------------------------------------------
(* Properties of the Validation Orchestrator *)

\* a request of cycle i settles while a later cycle has been initiated
StaleCompletion(i) ==
    /\ i \in DOMAIN cycles
    /\ cycles[i].id < cycleCount
    /\ \/ ValidateResponseOk(i)
       \/ ValidateResponseFail(i)
       \/ SuggestResponseOk(i)
       \/ SuggestResponseFail(i)

\* C1: the results of a cycle that is no longer the most recently initiated one
\* change neither the panel's validationResults, suggestions and
\* detectedComponents nor the ValidationState published to the page.
C1_OnlyLatestCycleUpdates ==
    [][(\E i \in 1..MaxCycles : StaleCompletion(i)) =>
         UNCHANGED <<validationResults, suggestions, detectedComponents,
                     validationState>>]_vars

\* C9: when the debounce timer fires for text shorter than 10 characters, no
\* request is issued to the validation or the suggestion endpoint.
C9_NoCallsForShortText ==
    [][(TimerFires /\ Len(debounceTimer.description) < 10) =>
         /\ apiCalls' = apiCalls
         /\ cycles' = cycles]_vars

\* the timer has fired for a 9-character text that names components
C9_Witness ==
    /\ debounceTimer.status = "fired"
    /\ Len(debounceTimer.description) = 9
    /\ DetectedIn(debounceTimer.description) # <<>>

\* C10: when the debounce fires for input shorter than 10 characters and no
\* cycle is in flight, the ValidationState the page holds from then on has no
\* validation results, no suggestions and hasErrors = FALSE.
C10_ShortInputReportsEmpty ==
    [][(TimerFires /\ Len(debounceTimer.description) < 10 /\ cycles = <<>>) =>
         /\ DOMAIN validationState'.validationResults = {}
         /\ validationState'.suggestions = <<>>
         /\ ~validationState'.hasErrors]_vars

\* C11: every text change replaces the pending timer by a new one for the new
\* text; the timer that fires holds the current text, and a validation cycle
\* starts only by a timer firing and validates the text present at that moment.
C11_DebounceValidatesSettledText ==
    [][/\ (input' # input) =>
             debounceTimer' = [status |-> "pending", description |-> input']
       /\ TimerFires => debounceTimer.description = input
       /\ (cycles' # cycles /\ Len(cycles') > Len(cycles)) =>
             /\ TimerFires
             /\ Len(cycles') = Len(cycles) + 1
             /\ cycles'[Len(cycles')].description = input
             /\ input' = input]_vars

\* a second cycle runs for a text that replaced the text of the first one
C11_Witness ==
    /\ Len(cycles) = 2
    /\ cycles[1].description # cycles[2].description
    /\ cycles[2].description = input
    /\ debounceTimer.status = "fired"

\* C12: the number of ValidationState updates pushed to the page never exceeds
\* the number of timer firings that engaged a cycle; a text change pushes none.
C12_PublishesBoundedByFirings == publishCount <= cycleCount

\* one cycle has run and published, and the text has been changed again since
C12_Witness ==
    /\ publishCount = 1
    /\ cycleCount = 1
    /\ detectedComponents # <<>>
    /\ DetectedIn(input) = <<>>
    /\ debounceTimer.status = "pending"

\* C13: while a cycle waits for the answer of its component-validation request,
\* its suggestion request has already been issued (both are in flight together).
C13_BothRequestsInFlight ==
    \A i \in DOMAIN cycles :
        cycles[i].pc = "awaitValidate" =>
            SuggestCall(cycles[i].description) \in apiCalls

\* C14: a failed validation request only empties the validation results: the
\* cycle goes on to the suggestion request and publishes that call's answer; a
\* failed suggestion request only empties the suggestions: the cycle publishes
\* the validation results it received. Either way the cycle completes.
C14_FailureDegradesOneCall ==
    [][\A i \in 1..MaxCycles :
         /\ ValidateResponseFail(i) =>
              /\ Len(cycles') = Len(cycles)
              /\ cycles'[i].pc = "awaitSuggest"
              /\ cycles'[i].validationResults = EmptyMap
              /\ SuggestCall(cycles[i].description) \in apiCalls'
              /\ publishCount' = publishCount
         /\ (i \in DOMAIN cycles /\ ~cycles[i].success /\ SuggestResponseOk(i)) =>
              /\ publishCount' = publishCount + 1
              /\ validationState'.validationResults = EmptyMap
              /\ validationState'.suggestions \in SuggestionResponses
              /\ Len(cycles') = Len(cycles) - 1
              /\ ~isValidating'
         /\ SuggestResponseFail(i) =>
              /\ publishCount' = publishCount + 1
              /\ validationState'.validationResults = cycles[i].validationResults
              /\ validationState'.suggestions = <<>>
              /\ Len(cycles') = Len(cycles) - 1
              /\ ~isValidating']_vars

\* a cycle whose validation request failed waits for its suggestions
C14_Witness ==
    \E i \in DOMAIN cycles :
        /\ ~cycles[i].success
        /\ cycles[i].pc = "awaitSuggest"
        /\ cycles[i].detected # <<>>

\* C15: every engaged cycle is either still in flight or has pushed exactly one
\* ValidationState, and a push happens only in the step in which the cycle's
\* suggestion call resolves, after its validation call; the pushed state
\* carries the results of both.
C15_SinglePushAfterBothCalls ==
    /\ [](publishCount + Len(cycles) = cycleCount)
    /\ [][(validationState' # validationState \/ publishCount' # publishCount) =>
            \E i \in DOMAIN cycles :
                /\ cycles[i].pc = "awaitSuggest"
                /\ SuggestResponseOk(i) \/ SuggestResponseFail(i)
                /\ publishCount' = publishCount + 1
                /\ validationState'.validationResults = cycles[i].validationResults
                /\ suggestions' =
                       Slice(validationState'.suggestions, MaxShownSuggestions)]_vars

\* two cycles have run to their end, the last one with both requests answered
C15_Witness ==
    /\ cycleCount = 2
    /\ publishCount = 2
    /\ cycles = <<>>
    /\ DOMAIN validationState.validationResults # {}
    /\ validationState.suggestions # <<>>

\* C16: in the ValidationState the page holds, hasErrors is TRUE exactly when
\* some entry of the validationResults of that same state has valid = FALSE
\* (FALSE when there are no entries).
C16_HasErrorsMatchesResults ==
    validationState.hasErrors <=>
        (\E n \in DOMAIN validationState.validationResults :
            validationState.validationResults[n].valid = FALSE)

\* a published state with one valid and one invalid component
C16_Witness ==
    /\ publishCount > 0
    /\ validationState.hasErrors
    /\ \E n \in DOMAIN validationState.validationResults :
          validationState.validationResults[n].valid

\* C17: the suggestions list of the ValidationState the page holds has at most
\* 5 entries, whatever the suggestion endpoint returned.
C17_PublishedSuggestionsTruncated ==
    Len(validationState.suggestions) <= MaxShownSuggestions

\* the dictionary tokens each description contains, ignoring case, in
\* dictionary order
ExpectedComponents(text) ==
    CASE text = "Use AppServices and CosmosDb with CacheForRedis" ->
             <<"AppServices", "CosmosDb", "CacheForRedis">>
      [] text = "it breaks often" -> <<"AKS">>
      [] text = "web app and a database" -> <<>>

\* C18: when a cycle starts, the detected components are exactly the dictionary
\* tokens occurring in the text as case-insensitive substrings; if there are any,
\* one validation request carrying all of them is issued; if there are none, no
\* validation request is issued and the validation result is empty.
C18_ExtractionAndBatching ==
    [][(TimerFires /\ ~TooShort(debounceTimer.description)) =>
         LET text == debounceTimer.description
             expected == ExpectedComponents(text)
             cycle == cycles'[Len(cycles')]
             issued == {c \in apiCalls' \ apiCalls : c.endpoint = "validate-components"}
         IN /\ cycle.detected = expected
            /\ IF expected = <<>>
               THEN /\ issued = {}
                    /\ cycle.pc = "awaitSuggest"
                    /\ validationResults' = EmptyMap
                    /\ detectedComponents' = <<>>
               ELSE /\ cycle.pc = "awaitValidate"
                    /\ ValidateCall(text, expected) \in apiCalls'
                    /\ issued \subseteq {ValidateCall(text, expected)}]_vars

\* the three components of one description were validated in one batch
C18_Witness ==
    /\ detectedComponents = <<"AppServices", "CosmosDb", "CacheForRedis">>
    /\ DOMAIN validationResults = {"AppServices", "CosmosDb", "CacheForRedis"}
    /\ Cardinality({c \in apiCalls : c.endpoint = "validate-components"}) = 1

-----------------------------------------------------------------------------
(* Properties of the page's submit and save actions *)

\* C19: a submission of empty or whitespace-only text issues no generation
\* request and leaves isProcessing, hasResults, designDocument, diagramUrl,
\* error and architectureExists as they were.
C19_BlankSubmissionRejected ==
    [][(Submit /\ Trim(input) = "") =>
         /\ genPc' = genPc
         /\ UNCHANGED <<isProcessing, hasResults, designDocument, diagramUrl, error,
                        architectureExists>>]_vars

\* a result is displayed and the textarea holds only spaces
C19_Witness ==
    /\ input = "   "
    /\ ~isProcessing
    /\ hasResults
    /\ designDocument # ""
    /\ genPc = "idle"

\* C20: while the displayed architecture is known to be saved (it was loaded
\* from the saved list, or architectureExists holds the record an existence
\* check or a save returned), the save button is disabled.
C20_SavedArchitectureNotSavable ==
    (SaveButtonShown /\ (displayedFrom = "load" \/ architectureExists.kind = "architecture"))
        => SaveButtonDisabled

\* C21: when the generation request fails, error becomes a non-empty message
\* (the response's detail when there is one), no results are shown (hasResults
\* FALSE, empty design document and diagram reference) and isProcessing is
\* cleared.
C21_GenerationFailureShowsOnlyError ==
    [][\A failure \in GenerationErrors :
         GenerateFail(failure) =>
             /\ error' # ""
             /\ (failure.kind = "status" /\ failure.detail # "") =>
                    error' = failure.detail
             /\ ~hasResults'
             /\ designDocument' = ""
             /\ diagramUrl' = ""
             /\ ~isProcessing']_vars

-----------------------------------------------------------------------------
(* Properties of the whole page *)

\* C22: resolvedDiagramUrl and diagramTriedProxy are written only by the
\* resolver's reference-change effect and its load-error handler, and
\* validationState only by the publish that ends a validation cycle; every
\* other step (submit, save, load, delete, existence check, export) leaves
\* them unchanged.
C22_ExclusiveOwnership ==
    [][/\ (<<resolvedDiagramUrl, diagramTriedProxy>>' #
             <<resolvedDiagramUrl, diagramTriedProxy>>) =>
                 (ResolveEffect \/ ImgError)
       /\ (validationState' # validationState) =>
                 \E i \in DOMAIN cycles :
                     SuggestResponseOk(i) \/ SuggestResponseFail(i)]_vars

\* the resolver and the panel have both written their state, and a load, a
\* delete and an export have run next to them
C22_Witness ==
    /\ resolvedDiagramUrl # ""
    /\ validationState # EmptyValidationState
    /\ displayedFrom = "load"
    /\ lastAlert = "Architecture deleted successfully!"
    /\ exportStatus # Null

\* a request of the page or the panel, or the image's fetch, awaits its answer
CallSuspended ==
    \/ genPc # "idle"
    \/ loadsInFlight # {}
    \/ listFetches # {}
    \/ savePc # "idle"
    \/ deletesInFlight # {}
    \/ exportPc # "idle"
    \/ cycles # <<>>
    \/ imgLoad = "loading"

\* the textarea accepts some change of its text
TextEditEnabled == ENABLED (\E text \in Texts : SetInput(text))

C24_ImageUrlBelongsToCurrentReference ==
    ImgMounted =>
        resolvedDiagramUrl \in {FirstResolvedUrl(diagramUrl), FallbackUrl(diagramUrl)}

-----------------------------------------------------------------------------
(* Properties of overlapping generate and load requests *)

\* C25: the displayed result belongs to the most recently initiated generate
\* or load action. A submit clears the displayed result, so a result that a
\* load has put on display while the generation is in flight is either the
\* later-initiated one, which the generation's response must not replace, or
\* the response of an earlier-initiated load that has already overwritten the
\* submit's state: a generation's response never finds a loaded result on
\* display.
C25_LatestInitiatedWins ==
    [][\A data \in GenerationResponses :
         GenerateOk(data) => displayedFrom # "load"]_vars

\* C26: once a saved architecture has been loaded and is the displayed result,
\* architectureExists holds a saved record and the save button is disabled
\* until a new generation is submitted, also when the existence check of a
\* previous generation completes after the load.
C26_LoadedArchitectureStaysSaved ==
    displayedFrom = "load" =>
        /\ architectureExists.kind = "architecture"
        /\ SaveButtonDisabled

C28_FailedLoadChangesOnlyError ==
    [][(/\ loadsInFlight' # loadsInFlight
        /\ loadsInFlight' \subseteq loadsInFlight
        /\ error' # "")
         => UNCHANGED <<designDocument, diagramUrl, hasResults, input,
                        architectureExists, resolvedDiagramUrl,
                        diagramTriedProxy>>]_vars

\* a load has failed while a result with its resolved diagram was on display
C28_Witness ==
    /\ error = "Failed to load architecture: Failed to load architecture"
    /\ hasResults
    /\ designDocument # ""
    /\ resolvedDiagramUrl # ""
    /\ architectureExists # Null

-----------------------------------------------------------------------------
(* Properties of the panel's display *)

\* C29: the panel's isValidating indicator is true whenever at least one
\* validation cycle is in flight and false when none is, also when a slow
\* earlier cycle overlaps a later one.
C29_IndicatorTracksCyclesInFlight == isValidating <=> (cycles # <<>>)

\* C30: the panel and the published state agree on errors: once a cycle has
\* completed and none is in flight, if the panel shows some detected component
\* as invalid then the published hasErrors is TRUE, also when the validation
\* call failed or returned no entry for a detected component.
C30_PanelAndPublishedStateAgree ==
    (cycles = <<>> /\ publishCount > 0 /\ PanelShowsInvalidComponent)
        => validationState.hasErrors

====
